---- MODULE Spec2Model ----
(***************************************************************************)
(* BGE-M3 embedding server (bge-server/server.py): a Flask process that    *)
(* loads one embedding model at import time and serves GET /health,        *)
(* POST /embed and POST /embed/single.                                     *)
(*                                                                         *)
(* Requests are POSTs with a JSON content type; the body is either bytes   *)
(* that do not parse, or the text of a JSON value.  Text strings are       *)
(* sequences of one-character strings so that Python's substring test,     *)
(* int() parsing and decimal formatting are computed, not assumed.         *)
(***************************************************************************)
EXTENDS Integers, Sequences, FiniteSets, TLC

VARIABLES
    phase,        \* "import" | "main" | "serving" | "exited"
    model,        \* the module global `model`: "unset" | "loaded"
    loadCount,    \* how many times BGEM3FlagModel(...) was called
    port,         \* the port app.run listens on (0 before app.run)
    envMaxBatch,  \* os.environ entry MAX_BATCH_SIZE
    envPort,      \* os.environ entry PORT
    last,         \* the request handled last, with its response (sequential server)
    errors,       \* the error statuses (400, 500) answered so far
    inflight      \* slot -> request being handled (threaded server)

vars == <<phase, model, loadCount, port, envMaxBatch, envPort, last, errors, inflight>>

\* ------------------------------------------------------------------ bounds
\* Longest list of texts enumerated exhaustively.
MaxLen == 3
\* Number of requests the threaded server handles at the same time.
MaxSlots == 2

\* ------------------------------------------------------- program constants
DefaultMaxBatch == 32
DefaultPort == 8080
SubBatchCap == 8
MaxTokens == 512

\* ------------------------------------------------------------ JSON values
JNull == [kind |-> "null", v |-> 0]
JBool(b) == [kind |-> "bool", v |-> b]
JNum(n) == [kind |-> "num", v |-> n]
JStr(s) == [kind |-> "str", v |-> s]
JList(l) == [kind |-> "list", v |-> l]
JObj(f) == [kind |-> "obj", v |-> f]
EmptyObj == [k \in {} |-> JNull]

\* The two field names the handlers look up.
KeyTexts == <<"t", "e", "x", "t", "s">>
KeyText == <<"t", "e", "x", "t">>

Min(a, b) == IF a < b THEN a ELSE b

\* Python `not x` is the negation of this.
Truthy(j) ==
    CASE j.kind = "null" -> FALSE
      [] j.kind = "bool" -> j.v
      [] j.kind = "num" -> j.v # 0
      [] j.kind = "str" -> Len(j.v) # 0
      [] j.kind = "list" -> Len(j.v) # 0
      [] j.kind = "obj" -> DOMAIN j.v # {}

\* Python `sub in s` for two strings.
IsSubstring(sub, s) ==
    \E i \in 1..(Len(s) + 1) :
        /\ i + Len(sub) - 1 <= Len(s)
        /\ SubSeq(s, i, i + Len(sub) - 1) = sub

\* Python `key in data`: defined for containers only.
CanContain(j) == j.kind \in {"obj", "list", "str"}
Contains(key, j) ==
    CASE j.kind = "obj" -> key \in DOMAIN j.v
      [] j.kind = "list" -> \E i \in 1..Len(j.v) : j.v[i] = JStr(key)
      [] j.kind = "str" -> IsSubstring(key, j.v)
      [] OTHER -> FALSE

\* ------------------------------------------------------------- exceptions
NoExc == [type |-> "none", msg |-> [text |-> "", args |-> <<>>]]
Exc(type, text, args) == [type |-> type, msg |-> [text |-> text, args |-> args]]
\* str(e)
StrOf(e) == e.msg

Ok(val) == [ok |-> TRUE, val |-> val, exc |-> NoExc]
Raise(e) == [ok |-> FALSE, val |-> JNull, exc |-> e]

\* ------------------------------------------------------- int() and f"{n}"
DigitChars == <<"0", "1", "2", "3", "4", "5", "6", "7", "8", "9">>
IsDigit(c) == \E d \in 1..10 : DigitChars[d] = c
DigitVal(c) == (CHOOSE d \in 1..10 : DigitChars[d] = c) - 1

RECURSIVE NatToStr(_)
NatToStr(n) ==
    IF n < 10 THEN <<DigitChars[n + 1]>>
    ELSE NatToStr(n \div 10) \o <<DigitChars[(n % 10) + 1]>>

\* f"{n}" for an int
IntToStr(n) == IF n < 0 THEN <<"-">> \o NatToStr(-n) ELSE NatToStr(n)

RECURSIVE DigitsVal(_, _)
DigitsVal(s, acc) ==
    IF s = <<>> THEN acc ELSE DigitsVal(Tail(s), acc * 10 + DigitVal(Head(s)))

RECURSIVE Strip(_)
Strip(s) ==
    IF s = <<>> THEN s
    ELSE IF Head(s) = " " THEN Strip(Tail(s))
    ELSE IF s[Len(s)] = " " THEN Strip(SubSeq(s, 1, Len(s) - 1))
    ELSE s

\* int(s) for a str: surrounding blanks, an optional sign, decimal digits.
ParseInt(s) ==
    LET t == Strip(s)
        signed == t # <<>> /\ Head(t) \in {"-", "+"}
        digits == IF signed THEN Tail(t) ELSE t
    IN  IF digits # <<>> /\ \A i \in 1..Len(digits) : IsDigit(digits[i])
        THEN Ok(IF signed /\ Head(t) = "-" THEN -DigitsVal(digits, 0)
                ELSE DigitsVal(digits, 0))
        ELSE Raise(Exc("ValueError", "invalid literal for int() with base 10: {!r}", <<s>>))

\* An environment entry is unset or holds a string.
EnvUnset == [set |-> FALSE, v |-> <<>>]
EnvSet(s) == [set |-> TRUE, v |-> s]

\* int(os.environ.get(name, default))
EnvInt(entry, default) == IF entry.set THEN ParseInt(entry.v) ELSE Ok(default)

\* ------------------------------------------------------------- the model
\* The characters that occur in the texts of the model.
Alphabet == <<"a", "b", "c", "e", "h", "l", "m", "n", "o", "s", "t", "x", "y", " ">>
CharCode(c) == CHOOSE i \in 1..Len(Alphabet) : Alphabet[i] = c

\* The dense vector the embedding model gives one text: a fixed-length tuple
\* that depends on the text's first max_length tokens only.
DenseVec(s, max_length) ==
    LET t == SubSeq(s, 1, Min(Len(s), max_length))
    IN  <<Len(t), IF t = <<>> THEN 0 ELSE CharCode(Head(t))>>

\* The model works through its input in chunks of batch_size texts and
\* concatenates the chunks' vectors in input order.
RECURSIVE EncodeBatches(_, _, _)
EncodeBatches(strs, batch_size, max_length) ==
    IF strs = <<>> THEN <<>>
    ELSE LET k == Min(Len(strs), batch_size)
         IN  [i \in 1..k |-> DenseVec(strs[i].v, max_length)]
             \o EncodeBatches(SubSeq(strs, k + 1, Len(strs)), batch_size, max_length)

\* model.encode(sentences, batch_size=..., max_length=...)["dense_vecs"], as
\* called through the module global `model`.  `out` is the outcome of the
\* inference itself, which the server does not control.
ModelEncode(handle, sentences, batch_size, max_length, out) ==
    IF handle # "loaded"
    THEN Raise(Exc("NameError", "name 'model' is not defined", <<>>))
    ELSE IF \E i \in 1..Len(sentences) : sentences[i].kind # "str"
    THEN Raise(Exc("TypeError", "sentence is not a string", <<>>))
    ELSE IF out = "raise"
    THEN Raise(Exc("RuntimeError", "inference failed", <<>>))
    ELSE Ok(EncodeBatches(sentences, batch_size, max_length))

Outcomes == {"ok", "raise"}

\* --------------------------------------------------------------- requests
Malformed == [raw |-> "malformed", val |-> JNull]
JsonBody(j) == [raw |-> "json", val |-> j]
NoBody == [raw |-> "none", val |-> JNull]

NoResp == [status |-> 0, key |-> "", val |-> <<>>]
Response(status, key, val) == [status |-> status, key |-> key, val |-> val]
Msg(text, args) == [text |-> text, args |-> args]

\* The locals of one handler invocation.
NewRequest(ep, body) ==
    [ep |-> ep, body |-> body, pc |-> "parse", data |-> JNull, texts |-> JNull,
     max_batch |-> 0, result |-> <<>>, raised |-> NoExc, calls |-> <<>>,
     resp |-> NoResp]

Return(r, resp) == [r EXCEPT !.pc = "done", !.resp = resp]

\* request.get_json(): the parsed value, or BadRequest for a body that does
\* not parse (BadRequest is an Exception; str(e) is its code, name and
\* description).
GetJson(body) ==
    IF body.raw = "json" THEN Ok(body.val)
    ELSE Raise(Exc("BadRequest",
                   "400 Bad Request: The browser (or proxy) sent a request that this server could not understand.",
                   <<>>))

\* `key in data`, which raises for a value that is no container.
KeyIn(key, data) ==
    IF CanContain(data) THEN Ok(Contains(key, data))
    ELSE Raise(Exc("TypeError", "argument of type '{}' is not iterable", <<data.kind>>))

\* data[key] for a str key.
Subscript(data, key) ==
    IF data.kind = "obj" THEN Ok(data.v[key])
    ELSE Raise(Exc("TypeError", "{} indices must be integers", <<data.kind>>))

\* Faulty variant: the handler answers a fixed text instead of str(e).
ErrorResponseGeneric(e) == Response(500, "error", Msg("Internal Server Error", <<>>))

\* except Exception as e: return jsonify({"error": str(e)}), 500
ErrorResponse(e) == Response(500, "error", StrOf(e))
Except(r, e) == [Return(r, ErrorResponse(e)) EXCEPT !.raised = e]

\* ----------------------------------------------------------------- /health
\* Faulty variant: the health check reports earlier internal errors.
HealthByErrors ==
    IF 500 \in errors THEN Response(503, "status", "degraded")
    ELSE Response(200, "status", "ok")

HealthResponse == Response(200, "status", "ok")

\* ------------------------------------------------------------------ /embed
\* Faulty variant: the type check lets the empty string through.
IsListOrEmptyStr(j) == j.kind = "list" \/ j = JStr(<<>>)
\* Faulty variant: the empty list is not short-circuited.
IsEmptyListNever(j) == FALSE
\* Faulty variant: a batch of exactly the maximum size is rejected.
BatchTooLargeInclusive(n, max_batch) == n >= max_batch
\* Faulty variant: a batch one above the maximum is accepted.
BatchTooLargeOffByOne(n, max_batch) == n > max_batch + 1

IsList(j) == j.kind = "list"
IsEmptyList(j) == Len(j.v) = 0
BatchTooLarge(n, max_batch) == n > max_batch
SubBatchSize(n) == Min(n, SubBatchCap)

EmbedParse(r) ==
    LET g == GetJson(r.body)
    IN  IF g.ok THEN [r EXCEPT !.data = g.val, !.pc = "validate"]
        ELSE Except(r, g.exc)

EmbedValidate(r) ==
    LET missing == Return(r, Response(400, "error", Msg("Missing 'texts' field", <<>>)))
        has == KeyIn(KeyTexts, r.data)
        sub == Subscript(r.data, KeyTexts)
    IN  IF ~Truthy(r.data) THEN missing
        ELSE IF ~has.ok THEN Except(r, has.exc)
        ELSE IF ~has.val THEN missing
        ELSE IF ~sub.ok THEN Except(r, sub.exc)
        ELSE IF ~IsList(sub.val)
        THEN Return([r EXCEPT !.texts = sub.val],
                    Response(400, "error", Msg("'texts' must be a list", <<>>)))
        ELSE IF IsEmptyList(sub.val)
        THEN Return([r EXCEPT !.texts = sub.val], Response(200, "embeddings", <<>>))
        ELSE [r EXCEPT !.texts = sub.val, !.pc = "config"]

EmbedConfig(r, env) ==
    LET m == EnvInt(env, DefaultMaxBatch)
        n == Len(r.texts.v)
    IN  IF ~m.ok THEN Except(r, m.exc)
        ELSE IF BatchTooLarge(n, m.val)
        THEN Return([r EXCEPT !.max_batch = m.val],
                    Response(400, "error",
                             Msg("Batch size {} exceeds maximum {}",
                                 <<IntToStr(n), IntToStr(m.val)>>)))
        ELSE [r EXCEPT !.max_batch = m.val, !.pc = "encode"]

EmbedEncode(r, handle, out) ==
    LET bs == SubBatchSize(Len(r.texts.v))
        call == [sentences |-> r.texts.v, batch_size |-> bs, max_length |-> MaxTokens]
        res == ModelEncode(handle, call.sentences, call.batch_size, call.max_length, out)
        called == [r EXCEPT !.calls = Append(@, call)]
    IN  IF res.ok THEN [called EXCEPT !.result = res.val, !.pc = "return"]
        ELSE Except(called, res.exc)

EmbedReturn(r) == Return(r, Response(200, "embeddings", r.result))

\* ----------------------------------------------------------- /embed/single
IsStr(j) == j.kind = "str"

SingleParse(r) ==
    LET g == GetJson(r.body)
    IN  IF g.ok THEN [r EXCEPT !.data = g.val, !.pc = "validate"]
        ELSE Except(r, g.exc)

SingleValidate(r) ==
    LET missing == Return(r, Response(400, "error", Msg("Missing 'text' field", <<>>)))
        has == KeyIn(KeyText, r.data)
        sub == Subscript(r.data, KeyText)
    IN  IF ~Truthy(r.data) THEN missing
        ELSE IF ~has.ok THEN Except(r, has.exc)
        ELSE IF ~has.val THEN missing
        ELSE IF ~sub.ok THEN Except(r, sub.exc)
        ELSE IF ~IsStr(sub.val)
        THEN Return([r EXCEPT !.texts = sub.val],
                    Response(400, "error", Msg("'text' must be a string", <<>>)))
        ELSE [r EXCEPT !.texts = sub.val, !.pc = "encode"]

\* model.encode([text], max_length=512): batch_size is left to the library,
\* whose default is at least 1, so the one text forms one chunk.
SingleEncode(r, handle, out) ==
    LET call == [sentences |-> <<r.texts>>, batch_size |-> 1, max_length |-> MaxTokens]
        res == ModelEncode(handle, call.sentences, call.batch_size, call.max_length, out)
        called == [r EXCEPT !.calls = Append(@, call)]
    IN  IF res.ok THEN [called EXCEPT !.result = res.val, !.pc = "return"]
        ELSE Except(called, res.exc)

SingleReturn(r) == Return(r, Response(200, "embedding", r.result[1]))

\* ------------------------------------------------------- running a handler
\* One step of the handler invocation r.
Step(r, env, handle, out) ==
    CASE r.ep = "health" -> Return(r, HealthResponse)
      [] r.ep = "embed" /\ r.pc = "parse" -> EmbedParse(r)
      [] r.ep = "embed" /\ r.pc = "validate" -> EmbedValidate(r)
      [] r.ep = "embed" /\ r.pc = "config" -> EmbedConfig(r, env)
      [] r.ep = "embed" /\ r.pc = "encode" -> EmbedEncode(r, handle, out)
      [] r.ep = "embed" /\ r.pc = "return" -> EmbedReturn(r)
      [] r.ep = "single" /\ r.pc = "parse" -> SingleParse(r)
      [] r.ep = "single" /\ r.pc = "validate" -> SingleValidate(r)
      [] r.ep = "single" /\ r.pc = "encode" -> SingleEncode(r, handle, out)
      [] r.ep = "single" /\ r.pc = "return" -> SingleReturn(r)

\* The whole handler, from the first statement to the returned response.
RECURSIVE Run(_, _, _, _)
Run(r, env, handle, out) ==
    IF r.pc = "done" THEN r ELSE Run(Step(r, env, handle, out), env, handle, out)

\* Faulty variant: a handler drops the module global.
ModelDroppedByHandler(handle) == "unset"

\* No handler assigns the module global `model`.
ModelAfterHandler(handle) == handle

\* ------------------------------------------------------- request bodies
TextA == <<"a">>
TextBC == <<"b", "c">>
TextHello == <<"h", "e", "l", "l", "o">>
TextMyTexts == <<"m", "y", " ", "t", "e", "x", "t", "s">>
TextPool == {TextA, TextBC}

\* Every list of at most MaxLen texts of the pool.
TextLists == UNION {[1..k -> {JStr(t) : t \in TextPool}] : k \in 0..MaxLen}
\* A list of n texts, alternating between the two texts of the pool.
LongList(n) == [i \in 1..n |-> IF i % 2 = 1 THEN JStr(TextA) ELSE JStr(TextBC)]

TextsValues ==
    {JList(l) : l \in TextLists}
    \cup {JList(LongList(DefaultMaxBatch)), JList(LongList(DefaultMaxBatch + 1))}
    \cup {JList(<<JNum(1)>>), JList(<<JStr(TextA), JNum(1)>>)}
    \cup {JStr(TextHello), JStr(<<>>), JNum(123), JBool(TRUE), JNull,
          JObj(EmptyObj), JObj(TextA :> JNum(1))}

TextValues ==
    {JStr(<<>>), JStr(TextHello), JNum(123), JList(<<JStr(TextA)>>),
     JObj(EmptyObj), JBool(FALSE), JNull}

NonObjects ==
    {JNull, JBool(TRUE), JBool(FALSE), JNum(0), JNum(5), JStr(<<>>),
     JStr(TextHello), JStr(TextMyTexts), JList(<<>>), JList(<<JNum(1)>>),
     JList(<<JStr(KeyTexts)>>), JList(<<JStr(KeyText)>>)}

Bodies ==
    {Malformed}
    \cup {JsonBody(j) : j \in NonObjects}
    \cup {JsonBody(JObj(EmptyObj)), JsonBody(JObj(TextA :> JNum(1)))}
    \cup {JsonBody(JObj(KeyTexts :> tv)) : tv \in TextsValues}
    \cup {JsonBody(JObj(KeyText :> tv)) : tv \in TextValues}

\* The bodies the threaded server is driven with.
ConcBodies ==
    {Malformed, JsonBody(JNum(5)),
     JsonBody(JObj(KeyTexts :> JList(<<>>))),
     JsonBody(JObj(KeyTexts :> JList(<<JStr(TextA), JStr(TextBC)>>))),
     JsonBody(JObj(KeyText :> JStr(TextHello)))}

MaxBatchEnv ==
    {EnvUnset, EnvSet(<<"0">>), EnvSet(<<"2">>), EnvSet(<<"4", "0">>),
     EnvSet(<<"-", "1">>), EnvSet(<<"x">>)}
PortEnv == {EnvUnset, EnvSet(<<"h", "t", "t", "p">>)}
ConcMaxBatchEnv == {EnvUnset, EnvSet(<<"1">>), EnvSet(<<"x">>)}

\* ---------------------------------------------------------------- startup
Idle == [NewRequest("none", NoBody) EXCEPT !.pc = "idle"]
Slots == 1..MaxSlots

Init ==
    /\ phase = "import"
    /\ model = "unset"
    /\ loadCount = 0
    /\ port = 0
    /\ envMaxBatch \in MaxBatchEnv
    /\ envPort \in PortEnv
    /\ last = Idle
    /\ errors = {}
    /\ inflight = [s \in Slots |-> Idle]

InitConc ==
    /\ phase = "import"
    /\ model = "unset"
    /\ loadCount = 0
    /\ port = 0
    /\ envMaxBatch \in ConcMaxBatchEnv
    /\ envPort = EnvUnset
    /\ last = Idle
    /\ errors = {}
    /\ inflight = [s \in Slots |-> Idle]

\* Faulty variant: a failed load is swallowed and startup goes on.
PhaseAfterLoadIgnoringFailure(ok) == "main"

\* An exception at import time ends the process.
PhaseAfterLoad(ok) == IF ok THEN "main" ELSE "exited"

\* model = BGEM3FlagModel(...), run once when the module is imported.
LoadModel ==
    /\ phase = "import"
    /\ \E ok \in BOOLEAN :
        /\ loadCount' = loadCount + 1
        /\ model' = IF ok THEN "loaded" ELSE "unset"
        /\ phase' = PhaseAfterLoad(ok)
    /\ UNCHANGED <<port, envMaxBatch, envPort, last, errors, inflight>>

\* The __main__ block: read PORT and call app.run.  A process that imports
\* the module to serve it skips the block.  DEBUG only selects Flask's debug
\* mode; no handler reads it.
Main ==
    /\ phase = "main"
    /\ \E isMain \in BOOLEAN :
        LET p == EnvInt(envPort, DefaultPort)
        IN  IF ~isMain THEN phase' = "serving" /\ port' = port
            ELSE IF p.ok THEN phase' = "serving" /\ port' = p.val
            ELSE phase' = "exited" /\ port' = port
    /\ UNCHANGED <<model, loadCount, envMaxBatch, envPort, last, errors, inflight>>

\* ------------------------------------------------------ sequential server
\* One request handled from its first statement to its response.
Handle(ep, body, out) ==
    /\ last' = Run(NewRequest(ep, body), envMaxBatch, model, out)
    /\ errors' = errors \cup ({last'.resp.status} \ {200})
    /\ model' = ModelAfterHandler(model)
    /\ UNCHANGED <<phase, loadCount, port, envMaxBatch, envPort, inflight>>

Health ==
    /\ phase = "serving"
    /\ Handle("health", NoBody, "ok")

Embed ==
    /\ phase = "serving"
    /\ \E body \in Bodies, out \in Outcomes : Handle("embed", body, out)

EmbedSingle ==
    /\ phase = "serving"
    /\ \E body \in Bodies, out \in Outcomes : Handle("single", body, out)

Next == LoadModel \/ Main \/ Health \/ Embed \/ EmbedSingle
Spec == Init /\ [][Next]_vars

\* -------------------------------------------------------- threaded server
Accept(s) ==
    /\ phase = "serving"
    /\ inflight[s].pc = "idle"
    /\ \E ep \in {"embed", "single"}, body \in ConcBodies :
        inflight' = [inflight EXCEPT ![s] = NewRequest(ep, body)]
    /\ UNCHANGED <<phase, model, loadCount, port, envMaxBatch, envPort, last, errors>>

AcceptHealth(s) ==
    /\ phase = "serving"
    /\ inflight[s].pc = "idle"
    /\ inflight' = [inflight EXCEPT ![s] = NewRequest("health", NoBody)]
    /\ UNCHANGED <<phase, model, loadCount, port, envMaxBatch, envPort, last, errors>>

StepSlot(s) ==
    /\ inflight[s].pc \notin {"idle", "done"}
    /\ \E out \in Outcomes :
        inflight' = [inflight EXCEPT ![s] = Step(@, envMaxBatch, model, out)]
    /\ model' = ModelAfterHandler(model)
    /\ UNCHANGED <<phase, loadCount, port, envMaxBatch, envPort, last, errors>>

Deliver(s) ==
    /\ inflight[s].pc = "done"
    /\ inflight' = [inflight EXCEPT ![s] = Idle]
    /\ UNCHANGED <<phase, model, loadCount, port, envMaxBatch, envPort, last, errors>>

NextConc ==
    \/ LoadModel
    \/ Main
    \/ \E s \in Slots : Accept(s)
    \/ \E s \in Slots : AcceptHealth(s)
    \/ \E s \in Slots : StepSlot(s)
    \/ \E s \in Slots : Deliver(s)
SpecConc == InitConc /\ [][NextConc]_vars

\* ------------------------------------------------- vocabulary of the claims
Answered(r, ep) == r.ep = ep /\ r.pc = "done"
IsObject(body) == body.raw = "json" /\ body.val.kind = "obj"
HasField(body, key) == IsObject(body) /\ key \in DOMAIN body.val.v
Field(body, key) == body.val.v[key]
IsStrList(j) == j.kind = "list" /\ \A i \in 1..Len(j.v) : j.v[i].kind = "str"
\* The configured maximum batch size, when the environment gives one.
Configured == EnvInt(envMaxBatch, DefaultMaxBatch)
IsError(resp, status) == resp.status = status /\ resp.key = "error"

\* A /embed request with a non-empty list of strings no longer than the
\* configured maximum.
ValidBatch(r) ==
    /\ Answered(r, "embed")
    /\ HasField(r.body, KeyTexts)
    /\ IsStrList(Field(r.body, KeyTexts))
    /\ Len(Field(r.body, KeyTexts).v) >= 1
    /\ Configured.ok
    /\ Len(Field(r.body, KeyTexts).v) <= Configured.val

\* The response carries one vector per text, in request order.
VectorsInOrder(r) ==
    LET texts == Field(r.body, KeyTexts).v
    IN  /\ r.resp.status = 200
        /\ r.resp.key = "embeddings"
        /\ Len(r.resp.val) = Len(texts)
        /\ \A i \in 1..Len(texts) : r.resp.val[i] = DenseVec(texts[i].v, MaxTokens)

\* C1 as stated: every /embed request with a non-empty list of n strings,
\* n <= MAX_BATCH_SIZE, is answered 200 with n vectors, the i-th being the
\* model's dense vector of the i-th text.
C1_AsClaimed == ValidBatch(last) => VectorsInOrder(last)

\* C1 amended: for such a request the model is invoked exactly once, on the
\* whole list in request order; when the invocation returns the response is
\* 200 with n vectors in request order, and when it raises the response is
\* 500 with the error's message.
C1_BatchInOrder ==
    ValidBatch(last) =>
        /\ Len(last.calls) = 1
        /\ last.calls[1].sentences = Field(last.body, KeyTexts).v
        /\ last.raised = NoExc => VectorsInOrder(last)
        /\ last.raised # NoExc =>
            /\ last.raised.type = "RuntimeError"
            /\ last.resp = Response(500, "error", last.raised.msg)

\* A full default-sized batch of texts that differ is answered in order.
C1_Witness ==
    /\ ValidBatch(last)
    /\ ~envMaxBatch.set
    /\ Len(Field(last.body, KeyTexts).v) = DefaultMaxBatch
    /\ VectorsInOrder(last)
    /\ last.resp.val[1] # last.resp.val[2]

\* A /embed request whose 'texts' is a list longer than the configured
\* maximum.
OverLimit(r) ==
    /\ Answered(r, "embed")
    /\ HasField(r.body, KeyTexts)
    /\ Field(r.body, KeyTexts).kind = "list"
    /\ Configured.ok
    /\ Len(Field(r.body, KeyTexts).v) > Configured.val

\* The response is the batch-too-large error citing n and m, and the model
\* was not invoked.
RejectedTooLarge(r) ==
    /\ IsError(r.resp, 400)
    /\ r.resp.val.args = <<IntToStr(Len(Field(r.body, KeyTexts).v)),
                           IntToStr(Configured.val)>>
    /\ r.calls = <<>>

\* C2 as stated: a /embed request whose 'texts' is a list of length n above
\* the configured maximum m is answered 400 with an error message that
\* cites n and m, and the model is not invoked.
C2_AsClaimed == OverLimit(last) => RejectedTooLarge(last)

\* C2 amended: the same for every non-empty list (the empty list is
\* answered 200 before the maximum is read, also under a negative maximum).
C2_BatchTooLarge ==
    (OverLimit(last) /\ Len(Field(last.body, KeyTexts).v) >= 1)
    => RejectedTooLarge(last)

\* 33 texts against the default of 32: the message cites "33" and "32".
C2_Witness ==
    /\ Answered(last, "embed")
    /\ ~envMaxBatch.set
    /\ HasField(last.body, KeyTexts)
    /\ Field(last.body, KeyTexts).kind = "list"
    /\ Len(Field(last.body, KeyTexts).v) = 33
    /\ last.resp.status = 400
    /\ last.resp.val.args = << <<"3", "3">>, <<"3", "2">> >>

\* C3: a /embed request with 'texts' = [] is answered 200 {"embeddings": []}
\* without invoking the model, before the batch size is read, whatever the
\* configured maximum is.
C3_EmptyShortCircuit ==
    ( /\ Answered(last, "embed")
      /\ HasField(last.body, KeyTexts)
      /\ Field(last.body, KeyTexts) = JList(<<>>) )
    => /\ last.resp = Response(200, "embeddings", <<>>)
       /\ last.calls = <<>>
       /\ last.raised = NoExc

\* The empty list is answered 200 under a maximum of -1, which it exceeds.
C3_Witness ==
    /\ Answered(last, "embed")
    /\ HasField(last.body, KeyTexts)
    /\ Field(last.body, KeyTexts) = JList(<<>>)
    /\ envMaxBatch = EnvSet(<<"-", "1">>)
    /\ last.resp.status = 200

\* C4 as stated: a /embed request whose body does not parse, or parses to a
\* value without the 'texts' field (values that are no objects included),
\* is answered 400 with an error body, never 500.
C4_AsClaimed ==
    (Answered(last, "embed") /\ ~HasField(last.body, KeyTexts))
    => IsError(last.resp, 400)

\* C5: a /embed request whose 'texts' is present and not a list is answered
\* 400 with an error body whatever its length; the batch size is not read
\* and the model is not invoked.
C5_NotAList ==
    ( /\ Answered(last, "embed")
      /\ HasField(last.body, KeyTexts)
      /\ Field(last.body, KeyTexts).kind # "list" )
    => /\ last.resp = Response(400, "error", Msg("'texts' must be a list", <<>>))
       /\ last.calls = <<>>
       /\ last.raised = NoExc

\* A string longer than the configured maximum is rejected as not a list.
C5_Witness ==
    /\ Answered(last, "embed")
    /\ HasField(last.body, KeyTexts)
    /\ Field(last.body, KeyTexts).kind = "str"
    /\ Configured.ok
    /\ Len(Field(last.body, KeyTexts).v) > Configured.val
    /\ last.resp.status = 400

\* C6 as stated, its rejection clause: a /embed/single request whose 'text'
\* field is absent or not a string is answered 400 with an error body.
C6_AsClaimed ==
    ( /\ Answered(last, "single")
      /\ ~(HasField(last.body, KeyText) /\ Field(last.body, KeyText).kind = "str") )
    => IsError(last.resp, 400)

\* C7: while the process serves, GET /health can always be answered, with
\* 200 {"status": "ok"}, whatever was answered before; the handler does not
\* invoke the model and raises nothing.
C7_HealthAlwaysOk ==
    /\ phase = "serving" => ENABLED Health
    /\ Answered(last, "health") =>
        /\ last.resp = Response(200, "status", "ok")
        /\ last.calls = <<>>
        /\ last.raised = NoExc

\* /health answers ok after both a 400 and a 500 were answered.
C7_Witness ==
    /\ Answered(last, "health")
    /\ errors = {400, 500}
    /\ last.resp.status = 200

\* C8: an exception raised in /embed or /embed/single is answered 500 with
\* the exception's message as the error; the process keeps serving, and
\* every response is the one the handler gives that request on a freshly
\* started server, whatever failed before.
C8_FailureIsRequestScoped ==
    /\ last.raised # NoExc =>
        /\ last.ep \in {"embed", "single"}
        /\ last.resp = Response(500, "error", last.raised.msg)
    /\ last.pc = "done" =>
        /\ phase = "serving"
        /\ \E out \in Outcomes :
            last = Run(NewRequest(last.ep, last.body), envMaxBatch, "loaded", out)

\* A batch is embedded after an earlier request was answered 500.
C8_Witness ==
    /\ 500 \in errors
    /\ Answered(last, "embed")
    /\ last.resp.status = 200
    /\ last.calls # <<>>

\* C9: the model is loaded exactly once and before any request is handled;
\* no request is handled without the model or reloads it, and a failed load
\* ends the process before it serves anything.
C9_LoadedOnceBeforeServing ==
    /\ loadCount <= 1
    /\ phase = "serving" => (model = "loaded" /\ loadCount = 1)
    /\ last.pc = "done" => (phase = "serving" /\ model = "loaded" /\ loadCount = 1)
    /\ (loadCount = 1 /\ model = "unset") =>
        (phase = "exited" /\ last = Idle /\ errors = {})

\* The model has been invoked by a request; it was loaded once.
C9_Witness ==
    /\ phase = "serving"
    /\ loadCount = 1
    /\ last.calls # <<>>
    /\ last.resp.status = 200

\* C10: under any interleaving of requests in flight the model handle stays
\* as loaded at startup, and every finished request holds the response its
\* handler gives for its own body and the configuration alone.
C10_NoInterference ==
    /\ phase = "serving" => model = "loaded"
    /\ \A s \in Slots :
        inflight[s].pc = "done" =>
            \E out \in Outcomes :
                inflight[s] = Run(NewRequest(inflight[s].ep, inflight[s].body),
                                  envMaxBatch, "loaded", out)

\* Two requests in flight at once: one embedded its batch, the other's
\* inference failed.
C10_Witness ==
    \E s, t \in Slots :
        /\ s # t
        /\ inflight[s].pc = "done" /\ inflight[s].resp.status = 200
        /\ inflight[s].calls # <<>>
        /\ inflight[t].pc = "done" /\ inflight[t].raised.type = "RuntimeError"

====
